---- MODULE Spec2Model ----
(***************************************************************************)
(* A model of the console and frame packages: the escape-sequence key      *)
(* decoder (parseKey and its helpers), the Color formatting, and the Frame *)
(* cell grid with its sub-frames sharing one backing array and its         *)
(* serialisation to escape sequences (PrintRect).                          *)
(*                                                                         *)
(* Bytes and runes are integers; strings and byte slices are sequences of  *)
(* integers. A Go slice is a window (base, len) on a backing array.        *)
(***************************************************************************)
EXTENDS Integers, Sequences, FiniteSets

VARIABLES
    pending,    \* bytes the input stream delivers on the next Read
    keybuf,     \* keybuf[:n], the bytes of the last Read
    key,        \* the key code GetKey returned last
    store,      \* the backing array of the root Frame's Data
    root,       \* the root Frame header (Data window, Bounds, Stride)
    sub,        \* a Frame header obtained by SubFrame calls
    printBuf,   \* the package-level reusable print buffer
    out,        \* bytes the last step wrote to the Console
    panicked,   \* TRUE when the last step ended in a Go panic
    last        \* the last operation and its arguments

vars == <<pending, keybuf, key, store, root, sub, printBuf, out, panicked, last>>

----------------------------------------------------------------------------
(* Bounds of the model *)

MaxRead == 4        \* longest burst of input bytes a Read delivers
MaxText == 2        \* longest string item handed to PutText

----------------------------------------------------------------------------
(* console: key codes (keys.go) *)

ESC == 27
K_ESCAPE == 27
K_UP == 57348
K_DOWN == 57349
K_RIGHT == 57350
K_LEFT == 57351
K_HOME == 57352
K_END == 57353
K_PAGEUP == 57354
K_PAGEDOWN == 57355
K_INSERT == 57356
K_DELETE == 57357
KeyBufLen == 16

\* buf[1:] of a non-empty Go slice
Rest(buf) == SubSeq(buf, 2, Len(buf))

\* A faulty parseSS3 that matches the whole remainder as parseCSI does; C4
\* fails on it.
parseSS3_FullMatch(buf) ==
    IF Len(buf) < 1 THEN 0
    ELSE IF buf = <<72>> THEN K_HOME
    ELSE IF buf = <<70>> THEN K_END
    ELSE 0

parseSS3(buf) ==
    IF Len(buf) < 1 THEN 0
    ELSE IF buf[1] = 72 THEN K_HOME
    ELSE IF buf[1] = 70 THEN K_END
    ELSE 0

parseCSI(buf) ==
    IF Len(buf) < 1 THEN 0
    ELSE IF buf = <<65>> THEN K_UP
    ELSE IF buf = <<66>> THEN K_DOWN
    ELSE IF buf = <<67>> THEN K_RIGHT
    ELSE IF buf = <<68>> THEN K_LEFT
    ELSE IF buf = <<50, 126>> THEN K_INSERT
    ELSE IF buf = <<51, 126>> THEN K_DELETE
    ELSE IF buf = <<53, 126>> THEN K_PAGEUP
    ELSE IF buf = <<54, 126>> THEN K_PAGEDOWN
    ELSE 0

parseESC(buf) ==
    IF Len(buf) < 1 THEN K_ESCAPE
    ELSE IF buf[1] = 91 THEN parseCSI(Rest(buf))
    ELSE IF buf[1] = 79 THEN parseSS3(Rest(buf))
    ELSE 0

parseKey(buf) ==
    IF Len(buf) < 1 THEN 0
    ELSE IF buf[1] = ESC THEN parseESC(Rest(buf))
    ELSE buf[1]

\* The bytes a terminal may send: NUL, ESC, '[', 'O', the final bytes of the
\* CSI and SS3 tables, and two bytes outside every table ('Z', 'a').
KeyBytes == {0, 27, 91, 79, 65, 66, 67, 68, 50, 51, 53, 54, 126, 72, 70, 90, 97}

Min(a, b) == IF a < b THEN a ELSE b
Max(a, b) == IF a > b THEN a ELSE b

----------------------------------------------------------------------------
(* image: points and rectangles, as the frame package uses them *)

Rect(x0, y0, x1, y1) == [MinX |-> x0, MinY |-> y0, MaxX |-> x1, MaxY |-> y1]

ZR == Rect(0, 0, 0, 0)

Dx(r) == r.MaxX - r.MinX
Dy(r) == r.MaxY - r.MinY

Empty(r) == r.MinX >= r.MaxX \/ r.MinY >= r.MaxY

\* A faulty In that takes the Max corner as inside; C3 fails on it.
PtIn_InclusiveMax(x, y, r) ==
    r.MinX <= x /\ x <= r.MaxX /\ r.MinY <= y /\ y <= r.MaxY

\* image.Pt(x, y).In(r)
PtIn(x, y, r) ==
    r.MinX <= x /\ x < r.MaxX /\ r.MinY <= y /\ y < r.MaxY

\* r.Intersect(s)
Intersect(r, s) ==
    LET t == Rect(Max(r.MinX, s.MinX), Max(r.MinY, s.MinY),
                  Min(r.MaxX, s.MaxX), Min(r.MaxY, s.MaxY))
    IN  IF Empty(t) THEN ZR ELSE t

----------------------------------------------------------------------------
(* console: Color (color.go) *)

RESET == 0
BRIGHT == 1
BLACK == 0
RED == 1
GREEN == 2

Color(a, f, b) == [Attr |-> a, Fore |-> f, Back |-> b]

\* console.Color{}, the zero value
NoColor == Color(0, 0, 0)

\* strconv.FormatInt(int64(i), 10) for i >= 0: the decimal digits
RECURSIVE Digits(_)
Digits(i) == IF i < 10 THEN <<48 + i>> ELSE Append(Digits(i \div 10), 48 + (i % 10))

\* strconv.FormatInt(int64(i), 10)
FormatInt(i) == IF i < 0 THEN <<45>> \o Digits(0 - i) ELSE Digits(i)

\* _CSI, the bytes ESC '['
CSI == <<27, 91>>

\* FormatColor(attr, fore, back): the escape sequence, or a panic
FormatColor(attr, fore, back) ==
    IF attr < 0 \/ attr > 8 THEN [s |-> <<>>, panic |-> TRUE]
    ELSE IF fore < 0 \/ fore > 7 THEN [s |-> <<>>, panic |-> TRUE]
    ELSE IF back < 0 \/ back > 7 THEN [s |-> <<>>, panic |-> TRUE]
    ELSE [s |-> CSI \o FormatInt(attr) \o <<59>> \o FormatInt((fore + 30) % 256)
                    \o <<59>> \o FormatInt((back + 40) % 256) \o <<109>>,
          panic |-> FALSE]

\* c.String()
ColorString(c) == FormatColor(c.Attr, c.Fore, c.Back)

\* FormatMoveTo(line, column)
FormatMoveTo(line, column) ==
    CSI \o FormatInt(line) \o <<59>> \o FormatInt(column) \o <<72>>

\* utf8.EncodeRune(buf[:], r), the n bytes written
EncodeRune(r) ==
    IF 0 <= r /\ r <= 127 THEN <<r>>
    ELSE IF 0 <= r /\ r <= 2047
         THEN <<192 + (r \div 64), 128 + (r % 64)>>
    ELSE IF r < 0 \/ r > 1114111 \/ (55296 <= r /\ r <= 57343)
         THEN <<239, 191, 189>>
    ELSE IF r <= 65535
         THEN <<224 + (r \div 4096), 128 + ((r \div 64) % 64), 128 + (r % 64)>>
    ELSE <<240 + (r \div 262144), 128 + ((r \div 4096) % 64),
           128 + ((r \div 64) % 64), 128 + (r % 64)>>

----------------------------------------------------------------------------
(* frame: Cell and Frame *)

Cell(r, c) == [R |-> r, C |-> c]

\* Cell{}, the zero value
ZeroCell == Cell(0, NoColor)

\* Cell{' ', console.Color{}}, what ClearRect fills with
ClearCell == Cell(32, NoColor)

\* A Frame header. Data is the window store[base+1 .. base+len] of the
\* backing array; a nil Data is the window (0, 0).
FrameOf(b, l, r, s) == [base |-> b, len |-> l, Bounds |-> r, Stride |-> s]

\* new(Frame), the zero value
NoFrame == FrameOf(0, 0, ZR, 0)

\* frame.New(r): the header; the backing array is NewData(r)
New(r) == FrameOf(0, Dx(r) * Dy(r), r, Dx(r))

NewData(r) == [i \in 1..(Dx(r) * Dy(r)) |-> ZeroCell]

\* A faulty CellOffset that steps rows by the bounds' width, not the Stride;
\* C9 fails on it.
CellOffset_Width(f, x, y) ==
    (y - f.Bounds.MinY) * Dx(f.Bounds) + (x - f.Bounds.MinX)

CellOffset(f, x, y) ==
    (y - f.Bounds.MinY) * f.Stride + (x - f.Bounds.MinX)

\* The outcome of a step on the backing array: the array and whether the
\* step panicked (an index outside the slice).
Outcome(st, p) == [store |-> st, panic |-> p]

\* f.Data[i], for i inside the slice
Index(f, st, i) == st[f.base + i + 1]

InSlice(f, i) == 0 <= i /\ i < f.len

\* f.At(x, y): the Cell and whether the read panicked
AtResult(f, st, x, y) ==
    IF ~PtIn(x, y, f.Bounds) THEN [cell |-> ZeroCell, panic |-> FALSE]
    ELSE IF ~InSlice(f, CellOffset(f, x, y)) THEN [cell |-> ZeroCell, panic |-> TRUE]
    ELSE [cell |-> Index(f, st, CellOffset(f, x, y)), panic |-> FALSE]

At(f, st, x, y) == AtResult(f, st, x, y).cell

\* A faulty Set without the bounds test; C2 fails on it.
Set_Unchecked(f, st, x, y, c) ==
    IF ~InSlice(f, CellOffset(f, x, y)) THEN Outcome(st, TRUE)
    ELSE Outcome([st EXCEPT ![f.base + CellOffset(f, x, y) + 1] = c], FALSE)

\* f.Set(x, y, c)
Set(f, st, x, y, c) ==
    IF ~PtIn(x, y, f.Bounds) THEN Outcome(st, FALSE)
    ELSE IF ~InSlice(f, CellOffset(f, x, y)) THEN Outcome(st, TRUE)
    ELSE Outcome([st EXCEPT ![f.base + CellOffset(f, x, y) + 1] = c], FALSE)

\* The loops of FillRect over the non-empty rectangle r, from (x, y) on
RECURSIVE FillLoop(_, _, _, _, _, _)
FillLoop(f, st, r, x, y, c) ==
    IF y >= r.MaxY THEN Outcome(st, FALSE)
    ELSE IF x >= r.MaxX THEN FillLoop(f, st, r, r.MinX, y + 1, c)
    ELSE LET o == Set(f, st, x, y, c)
         IN  IF o.panic THEN o ELSE FillLoop(f, o.store, r, x + 1, y, c)

\* f.FillRect(r, c)
FillRect(f, st, r, c) ==
    LET t == Intersect(f.Bounds, r)
    IN  IF Empty(t) THEN Outcome(st, FALSE)
        ELSE FillLoop(f, st, t, t.MinX, t.MinY, c)

\* f.Fill(c)
Fill(f, st, c) == FillRect(f, st, f.Bounds, c)

\* f.ClearRect(r)
ClearRect(f, st, r) == FillRect(f, st, r, ClearCell)

\* f.Clear()
Clear(f, st) == ClearRect(f, st, f.Bounds)

\* A faulty SubFrame that keeps the parent's Data unsliced; C1 fails on it.
SubFrame_SameData(f, r) ==
    LET t == Intersect(r, f.Bounds)
    IN  IF Empty(t) THEN [frame |-> NoFrame, panic |-> FALSE]
        ELSE [frame |-> FrameOf(f.base, f.len, t, f.Stride), panic |-> FALSE]

\* f.SubFrame(r): the new header, and whether slicing Data panicked
SubFrame(f, r) ==
    LET t == Intersect(r, f.Bounds)
        off == CellOffset(f, t.MinX, t.MinY)
    IN  IF Empty(t) THEN [frame |-> NoFrame, panic |-> FALSE]
        ELSE IF off < 0 \/ off > f.len THEN [frame |-> NoFrame, panic |-> TRUE]
        ELSE [frame |-> FrameOf(f.base + off, f.len - off, t, f.Stride), panic |-> FALSE]

\* One item of PutText's variadic list: a string (its runes) or a
\* console.Color; any other dynamic type has kind "other".
StringItem(t) == [kind |-> "string", s |-> t, c |-> NoColor]
ColorItem(col) == [kind |-> "color", s |-> <<>>, c |-> col]

\* for _, r := range o { f.Set(x, y, Cell{r, col}); x++ }
RECURSIVE PutRunes(_, _, _, _, _, _)
PutRunes(f, st, x, y, t, col) ==
    IF t = <<>> THEN [store |-> st, x |-> x, panic |-> FALSE]
    ELSE LET o == Set(f, st, x, y, Cell(Head(t), col))
         IN  IF o.panic THEN [store |-> o.store, x |-> x, panic |-> TRUE]
             ELSE PutRunes(f, o.store, x + 1, y, Tail(t), col)

\* for _, v := range vals { ... }
RECURSIVE PutItems(_, _, _, _, _, _)
PutItems(f, st, x, y, vals, col) ==
    IF vals = <<>> THEN Outcome(st, FALSE)
    ELSE IF x >= f.Bounds.MaxX THEN Outcome(st, FALSE)
    ELSE LET v == Head(vals)
         IN  IF v.kind = "string"
             THEN LET o == PutRunes(f, st, x, y, v.s, col)
                  IN  IF o.panic THEN Outcome(o.store, TRUE)
                      ELSE PutItems(f, o.store, o.x, y, Tail(vals), col)
             ELSE IF v.kind = "color" THEN PutItems(f, st, x, y, Tail(vals), v.c)
             ELSE Outcome(st, TRUE)

\* f.PutText(x, y, vals...)
PutText(f, st, x, y, vals) ==
    IF y < f.Bounds.MinY \/ y >= f.Bounds.MaxY THEN Outcome(st, FALSE)
    ELSE PutItems(f, st, x, y, vals, NoColor)

\* f.PutTextRel(x, y, vals...)
PutTextRel(f, st, x, y, vals) ==
    PutText(f, st, f.Bounds.MinX + x, f.Bounds.MinY + y, vals)

\* The body of PrintRect's inner loop for the cell at (x, y): the buffer and
\* the running colour after it
PrintCell(f, st, buf, x, y, col) ==
    LET a == AtResult(f, st, x, y)
        r == IF a.cell.R = 0 THEN 32 ELSE a.cell.R
        cs == ColorString(a.cell.C)
    IN  IF a.panic THEN [buf |-> buf, col |-> col, panic |-> TRUE]
        ELSE IF col # a.cell.C
        THEN IF cs.panic THEN [buf |-> buf, col |-> a.cell.C, panic |-> TRUE]
             ELSE [buf |-> buf \o cs.s \o EncodeRune(r), col |-> a.cell.C, panic |-> FALSE]
        ELSE [buf |-> buf \o EncodeRune(r), col |-> col, panic |-> FALSE]

\* for x := r.Min.X; x < r.Max.X; x++ { ... }, from x on
RECURSIVE PrintRow(_, _, _, _, _, _, _)
PrintRow(f, st, buf, r, x, y, col) ==
    IF x >= r.MaxX THEN [buf |-> buf, col |-> col, panic |-> FALSE]
    ELSE LET o == PrintCell(f, st, buf, x, y, col)
         IN  IF o.panic THEN o ELSE PrintRow(f, st, o.buf, r, x + 1, y, o.col)

\* for y := r.Min.Y; y < r.Max.Y; y++ { ... }, from y on
RECURSIVE PrintRows(_, _, _, _, _, _)
PrintRows(f, st, buf, r, y, col) ==
    IF y >= r.MaxY THEN [buf |-> buf, panic |-> FALSE]
    ELSE LET o == PrintRow(f, st, buf \o FormatMoveTo(y + 1, r.MinX), r, r.MinX, y, col)
         IN  IF o.panic THEN [buf |-> o.buf, panic |-> TRUE]
             ELSE PrintRows(f, st, o.buf, r, y + 1, o.col)

\* A faulty PrintRect that appends to the print buffer as it finds it; C8
\* fails on it.
PrintRect_NoReset(f, st, pb, r) == PrintRows(f, st, pb, r, r.MinY, NoColor)

\* f.PrintRect(c, r), with pb the print buffer as the call finds it: the
\* print buffer as the call leaves it, and whether it panicked before
\* c.WriteString
PrintRect(f, st, pb, r) == PrintRows(f, st, SubSeq(pb, 1, 0), r, r.MinY, NoColor)

\* f.Print(c)
FramePrint(f, st, pb) == PrintRect(f, st, pb, f.Bounds)

----------------------------------------------------------------------------
(* The operations as steps. A caller invokes one operation at a time; last *)
(* records the call and its arguments until the caller moves on (Done).    *)

Call(op, f, x, y, c, r, vals) ==
    [op |-> op, f |-> f, x |-> x, y |-> y, c |-> c, r |-> r, vals |-> vals]

NoCall == Call("none", "root", 0, 0, ZeroCell, ZR, <<>>)

Idle == last.op = "none"

\* The Frame a caller holds under the name f
FrameNamed(f) == IF f = "root" THEN root ELSE sub

\* A step that leaves the Frames' storage as the outcome o says
Stored(o) ==
    /\ store' = o.store
    /\ panicked' = o.panic
    /\ out' = <<>>
    /\ UNCHANGED <<pending, keybuf, key, root, sub, printBuf>>

\* Console.GetKey: one Read into keybuf, then parseKey(keybuf[:n]).
GetKey ==
    LET n == Min(Len(pending), KeyBufLen)
    IN  /\ Idle
        /\ keybuf' = SubSeq(pending, 1, n)
        /\ key' = parseKey(SubSeq(pending, 1, n))
        /\ pending' = SubSeq(pending, n + 1, Len(pending))
        /\ last' = Call("GetKey", "root", 0, 0, ZeroCell, ZR, <<>>)
        /\ panicked' = FALSE
        /\ out' = <<>>
        /\ UNCHANGED <<store, root, sub, printBuf>>

SetOp(F, P, C) ==
    \E f \in F, p \in P, c \in C :
        /\ Idle
        /\ Stored(Set(FrameNamed(f), store, p[1], p[2], c))
        /\ last' = Call("Set", f, p[1], p[2], c, ZR, <<>>)

FillRectOp(F, R, C) ==
    \E f \in F, r \in R, c \in C :
        /\ Idle
        /\ Stored(FillRect(FrameNamed(f), store, r, c))
        /\ last' = Call("FillRect", f, 0, 0, c, r, <<>>)

FillOp(F, C) ==
    \E f \in F, c \in C :
        /\ Idle
        /\ Stored(Fill(FrameNamed(f), store, c))
        /\ last' = Call("Fill", f, 0, 0, c, ZR, <<>>)

ClearRectOp(F, R) ==
    \E f \in F, r \in R :
        /\ Idle
        /\ Stored(ClearRect(FrameNamed(f), store, r))
        /\ last' = Call("ClearRect", f, 0, 0, ZeroCell, r, <<>>)

ClearOp(F) ==
    \E f \in F :
        /\ Idle
        /\ Stored(Clear(FrameNamed(f), store))
        /\ last' = Call("Clear", f, 0, 0, ZeroCell, ZR, <<>>)

PutTextOp(F, P, V) ==
    \E f \in F, p \in P, vals \in V :
        /\ Idle
        /\ Stored(PutText(FrameNamed(f), store, p[1], p[2], vals))
        /\ last' = Call("PutText", f, p[1], p[2], ZeroCell, ZR, vals)

PutTextRelOp(F, P, V) ==
    \E f \in F, p \in P, vals \in V :
        /\ Idle
        /\ Stored(PutTextRel(FrameNamed(f), store, p[1], p[2], vals))
        /\ last' = Call("PutTextRel", f, p[1], p[2], ZeroCell, ZR, vals)

\* sub = f.SubFrame(r), for f the root or the sub-frame held so far
SubFrameOp(F, R) ==
    \E f \in F, r \in R :
        /\ Idle
        /\ sub' = SubFrame(FrameNamed(f), r).frame
        /\ panicked' = SubFrame(FrameNamed(f), r).panic
        /\ out' = <<>>
        /\ last' = Call("SubFrame", f, 0, 0, ZeroCell, r, <<>>)
        /\ UNCHANGED <<pending, keybuf, key, store, root, printBuf>>

\* A step that renders: the print buffer is left as o says, and its bytes
\* reach the Console unless the render panicked
Printed(o) ==
    /\ printBuf' = o.buf
    /\ out' = IF o.panic THEN <<>> ELSE o.buf
    /\ panicked' = o.panic
    /\ UNCHANGED <<pending, keybuf, key, store, root, sub>>

PrintRectOp(F, R) ==
    \E f \in F, r \in R :
        /\ Idle
        /\ Printed(PrintRect(FrameNamed(f), store, printBuf, r))
        /\ last' = Call("PrintRect", f, 0, 0, ZeroCell, r, <<>>)

PrintOp(F) ==
    \E f \in F :
        /\ Idle
        /\ Printed(FramePrint(FrameNamed(f), store, printBuf))
        /\ last' = Call("Print", f, 0, 0, ZeroCell, FrameNamed(f).Bounds, <<>>)

\* The caller moves on to its next call.
Done ==
    /\ ~Idle
    /\ last' = NoCall
    /\ panicked' = FALSE
    /\ out' = <<>>
    /\ UNCHANGED <<pending, keybuf, key, store, root, sub, printBuf>>

----------------------------------------------------------------------------
(* The decoder: every burst of up to MaxRead bytes, read and decoded *)

InitKey ==
    /\ \E n \in 0..MaxRead : pending \in [1..n -> KeyBytes]
    /\ keybuf = <<>>
    /\ key = 0
    /\ store = <<>>
    /\ root = NoFrame
    /\ sub = NoFrame
    /\ printBuf = <<>>
    /\ out = <<>>
    /\ panicked = FALSE
    /\ last = NoCall

NextKey == GetKey \/ Done

SpecKey == InitKey /\ [][NextKey]_vars

----------------------------------------------------------------------------
(* The cell grid: a root Frame, its sub-frames, and every write *)

Frames == {"root", "sub"}

\* The root of the grid specification: two columns, two rows, away from
\* the origin.
RootRect == Rect(1, 1, 3, 3)

\* Coordinates probed: the root's bounds and one step around them
Probe == {<<x, y>> : x \in 0..3, y \in 0..3}

\* Intervals: overhanging low, the whole extent, the high half, overhanging high
Ivals == {<<0, 2>>, <<1, 3>>, <<2, 3>>, <<2, 5>>}

\* Rectangles handed to FillRect, ClearRect and SubFrame: the products of
\* the intervals, an empty rectangle and one disjoint from the root
Rects ==
    {Rect(h[1], v[1], h[2], v[2]) : h \in Ivals, v \in Ivals}
        \cup {Rect(2, 2, 2, 2), Rect(4, 4, 6, 6)}

\* Cells handed to Set, FillRect and Fill
CellInputs == {Cell(88, Color(RESET, RED, BLACK)), ClearCell}

\* Argument lists of PutText in the grid specification
GridLists ==
    {<<ColorItem(Color(RESET, RED, BLACK)), StringItem(<<88>>)>>,
     <<ColorItem(Color(RESET, RED, BLACK)), StringItem(<<88, 88, 88>>)>>}

Init ==
    /\ pending = <<>>
    /\ keybuf = <<>>
    /\ key = 0
    /\ store = NewData(RootRect)
    /\ root = New(RootRect)
    /\ sub = NoFrame
    /\ printBuf = <<>>
    /\ out = <<>>
    /\ panicked = FALSE
    /\ last = NoCall

Next ==
    \/ SetOp(Frames, Probe, CellInputs)
    \/ FillRectOp(Frames, Rects, CellInputs)
    \/ FillOp(Frames, CellInputs)
    \/ ClearRectOp(Frames, Rects)
    \/ ClearOp(Frames)
    \/ PutTextOp(Frames, Probe, GridLists)
    \/ PutTextRelOp(Frames, Probe, GridLists)
    \/ SubFrameOp(Frames, Rects)
    \/ Done

Spec == Init /\ [][Next]_vars

----------------------------------------------------------------------------
(* Text placement: PutText and PutTextRel on the root and on sub-frames *)

\* The string "abab..." cut to n runes
Text(n) == [i \in 1..n |-> IF i % 2 = 1 THEN 97 ELSE 98]

\* Argument lists of PutText: a string, a colour then a string, and a
\* string in two parts with a colour between them
TextLists ==
    {<<StringItem(Text(n))>> : n \in 0..MaxText}
        \cup {<<ColorItem(Color(RESET, RED, BLACK)), StringItem(Text(n))>> : n \in 1..MaxText}
        \cup {<<StringItem(Text(1)), ColorItem(Color(RESET, RED, BLACK)), StringItem(Text(n))>> :
                 n \in 1..(MaxText - 1)}

\* Where text is put: left of, inside and right of the root's columns; above
\* its rows and on them
TextAt == {<<x, y>> : x \in 0..3, y \in {0, 1, 2}}

\* Relative to a Frame's own origin: on its first row and below its last
TextRel == {<<x, y>> : x \in {-1, 0, 1}, y \in {0, 2}}

\* Sub-frames taken: the right column and the left column
TextRects == {Rect(2, 1, 3, 3), Rect(1, 1, 2, 3)}

NextText ==
    \/ PutTextOp(Frames, TextAt, TextLists)
    \/ PutTextRelOp(Frames, TextRel, TextLists)
    \/ SubFrameOp({"root"}, TextRects)
    \/ Done

SpecText == Init /\ [][NextText]_vars

----------------------------------------------------------------------------
(* Rendering: a three by two root at the origin, cleared, set and printed *)

PrintRoot == Rect(0, 0, 3, 2)

\* Cells handed to Set before rendering: a red X, a bright green Z, and a Y
\* whose Color has an attribute outside 0..8
RedX == Cell(88, Color(RESET, RED, BLACK))
GreenZ == Cell(90, Color(BRIGHT, GREEN, BLACK))
BadY == Cell(89, Color(9, RED, BLACK))

\* Where cells are set: the end of the first row, the start and the middle
\* of the second
PrintPts == {<<2, 0>>, <<0, 1>>, <<1, 1>>}

\* The sub-frame taken: the two right columns
PrintSubs == {Rect(1, 0, 3, 2)}

\* Rectangles rendered: the second row, one overhanging the root to the
\* right and below, one with rows but no columns, one disjoint from the root
PrintRects == {Rect(0, 1, 3, 2), Rect(1, 1, 4, 3), Rect(1, 0, 1, 2), Rect(5, 5, 6, 6)}

InitPrint ==
    /\ pending = <<>>
    /\ keybuf = <<>>
    /\ key = 0
    /\ store = NewData(PrintRoot)
    /\ root = New(PrintRoot)
    /\ sub = NoFrame
    /\ printBuf = <<>>
    /\ out = <<>>
    /\ panicked = FALSE
    /\ last = NoCall

NextPrint ==
    \/ ClearOp({"root"})
    \/ SetOp({"root"}, PrintPts, {RedX, GreenZ})
    \/ SetOp({"root"}, {<<1, 1>>}, {BadY})
    \/ SubFrameOp({"root"}, PrintSubs)
    \/ PrintRectOp(Frames, PrintRects)
    \/ PrintOp(Frames)
    \/ Done

SpecPrint == InitPrint /\ [][NextPrint]_vars

----------------------------------------------------------------------------
(* Properties of the decoder *)

\* The table of the CSI dispatch: the bytes after ESC '[' and the key
CSITable ==
    {<<<<65>>, K_UP>>, <<<<66>>, K_DOWN>>, <<<<67>>, K_RIGHT>>, <<<<68>>, K_LEFT>>,
     <<<<50, 126>>, K_INSERT>>, <<<<51, 126>>, K_DELETE>>,
     <<<<53, 126>>, K_PAGEUP>>, <<<<54, 126>>, K_PAGEDOWN>>}

\* The bytes of b from its third on
After2(b) == SubSeq(b, 3, Len(b))

IsCSI(b) == Len(b) >= 2 /\ b[1] = 27 /\ b[2] = 91 /\ \E e \in CSITable : e[1] = After2(b)
IsSS3(b) == Len(b) >= 3 /\ b[1] = 27 /\ b[2] = 79 /\ b[3] \in {72, 70}

\* The key the three-level dispatch assigns to the bytes b
Dispatch(b) ==
    IF b = <<>> THEN 0
    ELSE IF b[1] # 27 THEN b[1]
    ELSE IF Len(b) = 1 THEN 27
    ELSE IF IsCSI(b) THEN (CHOOSE e \in CSITable : e[1] = After2(b))[2]
    ELSE IF IsSS3(b) THEN (IF b[3] = 72 THEN K_HOME ELSE K_END)
    ELSE 0

\* C4: for every byte sequence read, GetKey returns what the three-level
\* dispatch specifies: the first byte's ordinal when it is not ESC, Escape
\* for a lone ESC, the CSI table's key when the bytes after ESC '[' are
\* exactly a table entry, Home or End when the byte after ESC 'O' is H or
\* F, and unknown (0) for the empty sequence and every other ESC sequence;
\* it never panics.
C4_DecodeDispatch ==
    last.op = "GetKey" => (key = Dispatch(keybuf) /\ ~panicked)

\* A read of ESC '[' '2' '~' decoded as Insert
C4_Witness ==
    last.op = "GetKey" /\ keybuf = <<27, 91, 50, 126>> /\ key = K_INSERT

\* C5: whenever GetKey returns 0 the bytes read are empty or an ESC
\* sequence matching no table entry; a raw byte taken as its own ordinal
\* and a recognised escape sequence never yield 0.
C5_ZeroMeansUnknown ==
    (last.op = "GetKey" /\ key = 0) =>
        \/ keybuf = <<>>
        \/ (keybuf[1] = 27 /\ Len(keybuf) > 1 /\ ~IsCSI(keybuf) /\ ~IsSS3(keybuf))

----------------------------------------------------------------------------
(* Properties of the cell grid *)

\* (x, y) lies in the half-open rectangle r
InBounds(r, x, y) == r.MinX <= x /\ x < r.MaxX /\ r.MinY <= y /\ y < r.MaxY

WriteOps == {"Set", "FillRect", "Fill", "ClearRect", "Clear", "PutText", "PutTextRel"}

\* C1: at every absolute coordinate inside a sub-frame's bounds, At through
\* the sub-frame and At through the root return the same Cell, whatever
\* writes were made through either and however the sub-frame was nested.
C1_SharedStorage ==
    \A p \in Probe :
        InBounds(sub.Bounds, p[1], p[2]) =>
            At(sub, store, p[1], p[2]) = At(root, store, p[1], p[2])

\* A sub-frame narrower than its stride, just written through, the root
\* showing the written Cell
C1_Witness ==
    /\ last.op = "Set" /\ last.f = "sub" /\ last.c # ZeroCell
    /\ sub.Bounds = Rect(2, 2, 3, 3) /\ sub.Stride > Dx(sub.Bounds)
    /\ InBounds(sub.Bounds, last.x, last.y)
    /\ At(root, store, last.x, last.y) = last.c
    /\ At(root, store, 1, 2) # last.c

\* C2: a write through a Frame leaves every root cell outside that Frame's
\* bounds unchanged; At through a Frame returns the zero Cell at every
\* coordinate outside its bounds, whatever the root holds there; and the
\* index of every in-bounds coordinate lies inside the Frame's Data slice,
\* itself inside the backing array.
C2_StaysInBounds ==
    [][ /\ \A f \in Frames :
              (last'.op \in WriteOps /\ last'.f = f) =>
                  /\ ~panicked'
                  /\ \A p \in Probe :
                         ~InBounds(FrameNamed(f).Bounds, p[1], p[2]) =>
                             At(root, store', p[1], p[2]) = At(root, store, p[1], p[2])
        /\ \A f \in Frames, p \in Probe :
              IF InBounds(FrameNamed(f)'.Bounds, p[1], p[2])
              THEN /\ 0 <= CellOffset(FrameNamed(f)', p[1], p[2])
                   /\ CellOffset(FrameNamed(f)', p[1], p[2]) < FrameNamed(f)'.len
                   /\ FrameNamed(f)'.base + FrameNamed(f)'.len <= Len(store')
              ELSE At(FrameNamed(f)', store', p[1], p[2]) = ZeroCell
      ]_vars

\* A write through the right-column sub-frame at a coordinate left of it,
\* where the root holds a non-empty Cell
C2_Witness ==
    /\ last.op \in {"Set", "PutText"} /\ last.f = "sub"
    /\ sub.Bounds = Rect(2, 1, 3, 3)
    /\ last.x = 1 /\ last.y = 2
    /\ At(root, store, 1, 2) \notin {ZeroCell, last.c}
    /\ At(sub, store, 1, 2) = ZeroCell

\* C3: Set at a coordinate inside the Frame's bounds makes At there return
\* the Cell set and changes no other cell; Set at a coordinate outside the
\* bounds changes no cell and does not panic; At at a coordinate outside
\* the bounds returns the zero Cell.
C3_SetThenAt ==
    [][ last'.op = "Set" =>
          LET F == FrameNamed(last'.f)
              x == last'.x
              y == last'.y
          IN  /\ ~panicked'
              /\ IF InBounds(F.Bounds, x, y)
                 THEN /\ At(F, store', x, y) = last'.c
                      /\ \A p \in Probe \ {<<x, y>>} :
                             /\ At(F, store', p[1], p[2]) = At(F, store, p[1], p[2])
                             /\ At(root, store', p[1], p[2]) = At(root, store, p[1], p[2])
                 ELSE store' = store
              /\ \A p \in Probe :
                     ~InBounds(F.Bounds, p[1], p[2]) => At(F, store', p[1], p[2]) = ZeroCell
      ]_vars

\* Set through the root at its last in-bounds coordinate, over a Cell that
\* differed
C3_Witness ==
    /\ last.op = "Set" /\ last.f = "root" /\ last.x = 2 /\ last.y = 2
    /\ At(root, store, 2, 2) = last.c
    /\ At(root, store, 1, 1) \notin {ZeroCell, last.c}

----------------------------------------------------------------------------
(* Properties of text placement *)

\* The characters of an argument list in order, each with the colour of the
\* latest colour item before it (col when there is none)
RECURSIVE Chars(_, _)
Chars(vals, col) ==
    IF vals = <<>> THEN <<>>
    ELSE IF Head(vals).kind = "color" THEN Chars(Tail(vals), Head(vals).c)
    ELSE [i \in 1..Len(Head(vals).s) |-> Cell(Head(vals).s[i], col)]
             \o Chars(Tail(vals), col)

\* C9: PutText(x, y, items...) writes the k-th character of the items at
\* (x+k, y), with the colour of the latest colour item before it, exactly
\* when (x+k, y) lies inside the Frame's bounds, and changes no other cell:
\* nothing when y is outside the rows, nothing past the right bound and
\* nothing on another row, also through a sub-frame narrower than its
\* stride. PutTextRel is the same from the Frame's own origin.
C9_PutTextEffect ==
    [][ last'.op \in {"PutText", "PutTextRel"} =>
          LET F == FrameNamed(last'.f)
              x == IF last'.op = "PutText" THEN last'.x ELSE F.Bounds.MinX + last'.x
              y == IF last'.op = "PutText" THEN last'.y ELSE F.Bounds.MinY + last'.y
              cs == Chars(last'.vals, NoColor)
          IN  /\ ~panicked'
              /\ \A p \in Probe :
                     IF /\ p[2] = y
                        /\ p[1] - x \in 0..(Len(cs) - 1)
                        /\ InBounds(F.Bounds, p[1], p[2])
                     THEN /\ At(root, store', p[1], p[2]) = cs[p[1] - x + 1]
                          /\ At(F, store', p[1], p[2]) = cs[p[1] - x + 1]
                     ELSE At(root, store', p[1], p[2]) = At(root, store, p[1], p[2])
      ]_vars

\* Two red characters put at the only column of the right-column sub-frame:
\* the first is written, the second is cut, and the next row keeps its Cell
C9_Witness ==
    /\ last.op = "PutText" /\ last.f = "sub"
    /\ sub.Bounds = Rect(2, 1, 3, 3) /\ sub.Stride > Dx(sub.Bounds)
    /\ last.x = 2 /\ last.y = 1
    /\ last.vals = <<ColorItem(Color(RESET, RED, BLACK)), StringItem(<<97, 98>>)>>
    /\ At(root, store, 2, 1) = Cell(97, Color(RESET, RED, BLACK))
    /\ At(root, store, 1, 2) = Cell(97, NoColor)

----------------------------------------------------------------------------
(* Properties of rendering *)

\* The decimal digits of n, for 0 <= n < 100
Decimal(n) == IF n < 10 THEN <<48 + n>> ELSE <<48 + (n \div 10), 48 + (n % 10)>>

\* The cursor-position sequence ESC [ L ; C H
MoveSeq(L, C) == <<27, 91>> \o Decimal(L) \o <<59>> \o Decimal(C) \o <<72>>

\* The colour-set sequence ESC [ a ; 30+f ; 40+b m
ColorSeq(c) ==
    <<27, 91>> \o Decimal(c.Attr) \o <<59>> \o Decimal(30 + c.Fore) \o <<59>>
        \o Decimal(40 + c.Back) \o <<109>>

\* The first position from j on holding the final byte of an escape
\* sequence ('H' or 'm'), or the last position
RECURSIVE EscEnd(_, _)
EscEnd(b, j) ==
    IF j >= Len(b) THEN Len(b)
    ELSE IF b[j] \in {72, 109} THEN j
    ELSE EscEnd(b, j + 1)

\* The length of the UTF-8 encoding a lead byte opens
GlyphLen(lead) == IF lead < 128 THEN 1 ELSE IF lead < 224 THEN 2 ELSE IF lead < 240 THEN 3 ELSE 4

\* The bytes b from position i on, cut into cursor-position sequences,
\* colour-set sequences and glyphs
RECURSIVE Tokens(_, _)
Tokens(b, i) ==
    IF i > Len(b) THEN <<>>
    ELSE IF b[i] = 27
    THEN LET j == EscEnd(b, i + 1)
         IN  <<[kind |-> IF b[j] = 72 THEN "move" ELSE "color", bytes |-> SubSeq(b, i, j)]>>
                 \o Tokens(b, j + 1)
    ELSE LET j == Min(Len(b), i + GlyphLen(b[i]) - 1)
         IN  <<[kind |-> "glyph", bytes |-> SubSeq(b, i, j)]>> \o Tokens(b, j + 1)

IsMove(t) == t.kind = "move"
IsColor(t) == t.kind = "color"
IsGlyph(t) == t.kind = "glyph"
NotMove(t) == t.kind # "move"

\* The last step was a render, of the rectangle last.r through the Frame
\* named last.f
Rendered == last.op \in {"PrintRect", "Print"}

\* The rows and columns of the intersection of r with the bounds b
RowsIn(r, b) == Max(0, Min(r.MaxY, b.MaxY) - Max(r.MinY, b.MinY))
ColsIn(r, b) == Max(0, Min(r.MaxX, b.MaxX) - Max(r.MinX, b.MinX))

\* The root is the cleared three by two Frame with the red X at (1, 1)
Scenario ==
    /\ root.Bounds = Rect(0, 0, 3, 2)
    /\ \A x \in 0..2, y \in 0..1 :
           At(root, store, x, y) = IF x = 1 /\ y = 1 THEN RedX ELSE ClearCell

\* C6: a render of a rectangle inside the Frame opens every row y with the
\* cursor-position sequence ESC [ y+1 ; C H, C the 1-indexed column of the
\* row's start; and the cleared three by two Frame with a red X at (1, 1),
\* rendered whole, gives bytes that begin with ESC [ 1 ; 1 H, hold exactly
\* one red-on-black colour-set sequence, before the X, and otherwise only
\* spaces as glyphs.
C6_RowStartsOneIndexed ==
    (Rendered /\ ~panicked) =>
        LET F == FrameNamed(last.f)
            r == last.r
            toks == Tokens(out, 1)
            moves == SelectSeq(toks, IsMove)
            glyphs == SelectSeq(toks, IsGlyph)
            red == ColorSeq(Color(RESET, RED, BLACK))
        IN  /\ (RowsIn(r, F.Bounds) = Dy(r) /\ ColsIn(r, F.Bounds) = Dx(r) /\ ~Empty(r)) =>
                   /\ toks[1].kind = "move"
                   /\ Len(moves) = Dy(r)
                   /\ \A i \in 1..Len(moves) : moves[i].bytes = MoveSeq(r.MinY + i, r.MinX + 1)
            /\ (Scenario /\ last.f = "root" /\ r = Rect(0, 0, 3, 2)) =>
                   /\ SubSeq(out, 1, 6) = MoveSeq(1, 1)
                   /\ Cardinality({i \in 1..Len(toks) : toks[i].bytes = red}) = 1
                   /\ \E i \in 1..Len(toks) :
                          /\ toks[i].bytes = red
                          /\ i < Len(toks) /\ toks[i + 1].bytes = <<88>>
                   /\ Cardinality({i \in 1..Len(glyphs) : glyphs[i].bytes = <<88>>}) = 1
                   /\ \A i \in 1..Len(glyphs) : glyphs[i].bytes \in {<<88>>, <<32>>}

\* C7: a render emits one cursor-position sequence and one run of glyphs
\* for each row of the intersection of the rectangle with the Frame's
\* bounds, as many glyphs as the intersection has columns, and nothing for
\* rows and columns outside the bounds; nothing at all when the rectangle
\* does not meet the bounds.
C7_OnlyIntersection ==
    (Rendered /\ ~panicked) =>
        LET F == FrameNamed(last.f)
            rows == IF ColsIn(last.r, F.Bounds) = 0 THEN 0 ELSE RowsIn(last.r, F.Bounds)
            cols == IF rows = 0 THEN 0 ELSE ColsIn(last.r, F.Bounds)
            toks == Tokens(out, 1)
        IN  /\ Len(SelectSeq(toks, IsMove)) = rows
            /\ Len(SelectSeq(toks, IsGlyph)) = rows * cols
            /\ rows = 0 => out = <<>>

\* The points PrintRect scans in the rectangle r, in scan order
Scanned(r) ==
    IF Empty(r) THEN <<>>
    ELSE [i \in 1..(Dx(r) * Dy(r)) |->
             <<r.MinX + ((i - 1) % Dx(r)), r.MinY + ((i - 1) \div Dx(r))>>]

\* What a render of r through F emits besides cursor positions: for each
\* cell scanned, a colour-set sequence when its Color differs from the
\* Color of the cell scanned before it (from the default Color for the
\* first), then its glyph
RECURSIVE Emitted(_, _, _, _)
Emitted(F, pts, i, running) ==
    IF i > Len(pts) THEN <<>>
    ELSE LET c == At(F, store, pts[i][1], pts[i][2])
         IN  (IF c.C # running THEN <<[kind |-> "color", bytes |-> ColorSeq(c.C)]>> ELSE <<>>)
                 \o <<[kind |-> "glyph", bytes |-> <<IF c.R = 0 THEN 32 ELSE c.R>>]>>
                 \o Emitted(F, pts, i + 1, c.C)

\* C8: the bytes a render writes hold, besides cursor positions, exactly a
\* colour-set sequence before the glyph of each cell whose Color differs
\* from the running colour (the default at the start of the call, then the
\* Color of the cell scanned last) and the glyphs; no two successive
\* colour-set sequences are the same; so the bytes depend on the Frame and
\* the rectangle alone, not on what was rendered before. A render that
\* panics writes nothing.
C8_ColorRuns ==
    Rendered =>
        IF panicked THEN out = <<>>
        ELSE LET toks == SelectSeq(Tokens(out, 1), NotMove)
                 cols == SelectSeq(toks, IsColor)
             IN  /\ toks = Emitted(FrameNamed(last.f), Scanned(last.r), 1, NoColor)
                 /\ \A i \in 1..(Len(cols) - 1) : cols[i] # cols[i + 1]

\* A render of the second row, red, red, then default, with the cell before
\* it red too: one colour-set sequence for the two red cells and one for
\* the default one after them
C8_Witness ==
    /\ Rendered /\ ~panicked /\ last.f = "root" /\ last.r = Rect(0, 1, 3, 2)
    /\ At(root, store, 2, 0) = RedX
    /\ At(root, store, 0, 1) = RedX
    /\ At(root, store, 1, 1) = RedX
    /\ At(root, store, 2, 1) = ClearCell
    /\ Len(SelectSeq(Tokens(out, 1), IsColor)) = 2

\* A Color is in range
ValidColor(c) == c.Attr \in 0..8 /\ c.Fore \in 0..7 /\ c.Back \in 0..7

\* C10: a Color with a component out of range fails fast: a Set handed a
\* Cell with such a Color panics, and no Frame ever holds such a Color.
C10_BadColorFailsFast ==
    /\ (last.op = "Set" /\ ~ValidColor(last.c.C)) => panicked
    /\ \A i \in 1..Len(store) : ValidColor(store[i].C)

====
